---- MODULE Spec2Model ----
(***************************************************************************)
(* Model of src/python/moomoo_export.py: the readiness probe               *)
(* (moomoo_is_running), session acquisition (get_trade_context), account   *)
(* enumeration (get_accounts), the per-account export loop                 *)
(* (export_account_data_for_web) and the script entry point (__main__).    *)
(*                                                                         *)
(* Durations are integers in tenths of a second (3 s = 30, 0.5 s = 5).     *)
(* Money is an integer in hundredths of a currency unit (0.1 = 10).        *)
(* The gateway, the vendor SDK, the clock and the file system are the      *)
(* environment: each of their results is drawn with \E where the call is   *)
(* made.                                                                   *)
(***************************************************************************)
EXTENDS Integers, Sequences, FiniteSets, TLC

(* ---------------------------- bounds ----------------------------------- *)
\* longest account listing get_acc_list returns
MaxAccounts == 2
\* largest number of rows position_list_query returns
MaxPositions == 1
\* last second of the wall clock (seconds 0..MaxClock)
MaxClock == 1

(* ------------------------ program constants ---------------------------- *)
\* timeout: float = 3 (tenths of a second)
DefaultTimeout == 30
\* retry_delay: float = 0.5 (tenths of a second)
DefaultRetryDelay == 5
\* port: int = 11111
DefaultPort == 11111
\* if total_assets_value <= 0.1 (hundredths)
ActivityThreshold == 10
\* str(acc_id)[-4:]
ShortIdLen == 4

(* --------------------------- input sets -------------------------------- *)
\* arguments a direct caller of moomoo_is_running may pass
Timeouts == {0, 5, 12, DefaultTimeout}
RetryDelays == {0, DefaultRetryDelay, 7}
Ports == {DefaultPort, 70000}
\* ports socket.connect accepts; any other raises OverflowError
ValidPorts == 0..65535

\* account ids as digit strings; the first two end in the same 4 characters
AccIds == {<<5, 1, 1, 1, 1>>, <<6, 1, 1, 1, 1>>, <<7, 2, 2, 2, 2>>}
TrdEnvs == {"REAL", "SIMULATE"}
\* total_assets values an account summary may report (hundredths)
AssetValues == {0, ActivityThreshold, ActivityThreshold + 1}

(* ----------------------- values of the program ------------------------- *)
None == [kind |-> "None", rows |-> 0, total_assets |-> 0]
\* a pandas DataFrame with n rows; total_assets is column total_assets of row 0
DataFrame(n, v) == [kind |-> "DataFrame", rows |-> n, total_assets |-> v]
\* the error description the SDK hands back in place of a table
ErrStr == [kind |-> "str", rows |-> 0, total_assets |-> 0]
Unbound == -1

\* acc_id: str = None
ArgNone == <<>>
\* nothing is known of an earlier run
NoPrev == [listing |-> <<>>, acc_list_ret |-> "none", reports |-> <<>>, files |-> <<>>]

\* how many runs SpecTwice covers: a first run and one re-run
Runs == 2

\* what a non-success (RET_ERROR) call may hand back as its data
ErrorPayloads == {ErrStr, DataFrame(0, 0)}

RECURSIVE SeqsUpTo(_, _)
SeqsUpTo(S, n) ==
    IF n = 0 THEN {<<>>}
    ELSE LET shorter == SeqsUpTo(S, n - 1)
         IN  shorter \cup {Append(s, x) : s \in {t \in shorter : Len(t) = n - 1}, x \in S}

\* account listings: records (acc_id, trd_env), one per account, ids distinct
Listings ==
    {l \in SeqsUpTo([acc_id : AccIds, trd_env : TrdEnvs], MaxAccounts) :
        \A i, j \in 1..Len(l) : l[i].acc_id = l[j].acc_id => i = j}

VARIABLES
    entry,              \* "main": the script is run; "probe": moomoo_is_running is
                        \* called; "export": export_account_data_for_web is called
    arg_acc_id,         \* the acc_id argument of export_account_data_for_web
    runs,               \* how many times the script is run, one after the other
    run,                \* which run of the script this is (1: the first)
    prev,               \* what the previous run saw and left behind (ghost)
    console,            \* notices printed about skipped accounts, in order
    pc,                 \* position in the code
    timeout, retry_delay, port,     \* arguments of moomoo_is_running
    nrange,             \* int(timeout / retry_delay), the length of the range
    tries,              \* outcomes of the connection attempts made so far
    probeRet,           \* return value of moomoo_is_running: "none", "True", "False"
    trd_ctx,            \* __main__'s trd_ctx: "None" or "ctx"
    calls,              \* session operations issued so far, in order
    listing,            \* the table get_acc_list returned (ghost)
    acc_list_ret,       \* the status get_acc_list returned, "none" before the call (ghost)
    acc_ids,            \* export_account_data_for_web's acc_ids
    acc_ids_bound,      \* whether the name acc_ids has been assigned
    idx,                \* position of the loop in acc_ids (0: before the first)
    positions_data, account_data, total_assets_value, timestamp,    \* locals of the loop
    clock,              \* wall clock, in seconds
    files,              \* output directory: file name -> content
    reports,            \* per processed account: what its two queries returned (ghost)
    err,                \* the exception in flight, "None" if none
    errAt,              \* loop position at which err was raised (0: outside the loop)
    exitStatus          \* "running", "ok" (exit 0) or "error" (unhandled exception)

probeVars == <<timeout, retry_delay, port, nrange, tries, probeRet>>
loopVars == <<positions_data, account_data, total_assets_value, timestamp>>
envVars == <<clock, files>>
argVars == <<arg_acc_id, runs, run, prev>>
vars == <<entry, argVars, console, pc, probeVars, trd_ctx, calls, listing, acc_list_ret, acc_ids,
          acc_ids_bound, idx, loopVars, envVars, reports, err, errAt, exitStatus>>

(* ----------------------------- helpers --------------------------------- *)
\* a plausible slip: the trd_env filter is missing
RealAccIds_NoFilter(data) == [i \in 1..Len(data) |-> data[i].acc_id]

\* real_accounts = data[data["trd_env"] == "REAL"]; real_accounts["acc_id"].values.tolist()
RECURSIVE RealAccIds(_)
RealAccIds(data) ==
    IF data = <<>> THEN <<>>
    ELSE IF Head(data).trd_env = "REAL"
         THEN <<Head(data).acc_id>> \o RealAccIds(Tail(data))
         ELSE RealAccIds(Tail(data))

\* str(acc_id)[-4:]
ShortAccId(id) ==
    IF Len(id) <= ShortIdLen THEN id ELSE SubSeq(id, Len(id) - ShortIdLen + 1, Len(id))

\* THIS_DIR / f"account_{short_acc_id}_data_{timestamp}.json"
OutPath(id, ts) == <<"account", ShortAccId(id), "data", ts>>

\* a plausible slip: the range is one too long
RangeLen_OneMore(t, d) == t \div d + 1

\* int(timeout / retry_delay) for timeout >= 0, retry_delay > 0
RangeLen(t, d) == t \div d

Call(op, i) == [op |-> op, i |-> i]
IsQuery(c) == c.op \in {"get_acc_list", "position_list_query", "accinfo_query"}

\* the gateway holds the same data in a re-run as in the run before it: a call
\* that returns hands back what it handed back then
SameListing(ret, data) ==
    IF run = 1 THEN TRUE ELSE ret = prev.acc_list_ret /\ data = prev.listing
SamePositions(i, ret, data) ==
    IF run = 1 THEN TRUE ELSE ret = prev.reports[i].pos /\ data = prev.reports[i].posdata
SameSummary(i, ret, data) ==
    IF run = 1 THEN TRUE ELSE ret = prev.reports[i].acc /\ data = prev.reports[i].accdata

\* what a query returned is remembered as long as a later run will ask again
Kept(data) == IF run < runs THEN data ELSE None

\* the state before the first of n runs of the script, or before a call
InitFor(n) ==
    /\ runs = n
    /\ entry \in {"main", "probe", "export"}
    /\ pc = CASE entry = "main" -> "main_try"
              [] entry = "probe" -> "probe_range"
              [] entry = "export" -> "export_call"
    /\ timeout \in (IF entry = "probe" THEN Timeouts ELSE {DefaultTimeout})
    /\ retry_delay \in (IF entry = "probe" THEN RetryDelays ELSE {DefaultRetryDelay})
    /\ port \in (IF entry = "probe" THEN Ports ELSE {DefaultPort})
    /\ arg_acc_id \in (IF entry = "export" THEN AccIds ELSE {ArgNone})
    /\ run = 1
    /\ prev = NoPrev
    /\ console = <<>>
    /\ nrange = 0
    /\ tries = <<>>
    /\ probeRet = "none"
    /\ trd_ctx = (IF entry = "export" THEN "ctx" ELSE "None")
    /\ calls = <<>>
    /\ listing = <<>>
    /\ acc_list_ret = "none"
    /\ acc_ids = <<>>
    /\ acc_ids_bound = FALSE
    /\ idx = 0
    /\ positions_data = None
    /\ account_data = None
    /\ total_assets_value = Unbound
    /\ timestamp = Unbound
    /\ clock = 0
    /\ files = <<>>
    /\ reports = <<>>
    /\ err = "None"
    /\ errAt = 0
    /\ exitStatus = "running"

Init == InitFor(1)

(* ------------------------- moomoo_is_running --------------------------- *)
\* an exception leaves moomoo_is_running
ProbeRaise(e) ==
    /\ err' = e
    /\ errAt' = 0
    /\ pc' = IF entry = "main" THEN "main_finally" ELSE "raised"

\* for _ in range(int(timeout / retry_delay))
ProbeRange ==
    /\ pc = "probe_range"
    /\ IF retry_delay = 0
       THEN /\ ProbeRaise("ZeroDivisionError")
            /\ UNCHANGED nrange
       ELSE /\ nrange' = RangeLen(timeout, retry_delay)
            /\ pc' = "probe_loop"
            /\ UNCHANGED <<err, errAt>>
    /\ UNCHANGED <<entry, argVars, console, timeout, retry_delay, port, tries, probeRet, trd_ctx, calls,
                   listing, acc_list_ret, acc_ids, acc_ids_bound, idx, loopVars,
                   envVars, reports, exitStatus>>

\* what s.connect((host, port)) may do: connect, fail with socket.error, or, for a
\* port outside 0..65535, raise OverflowError
ConnectOutcomes(p) ==
    IF p \in ValidPorts THEN {"connected", "socket.error"} ELSE {"OverflowError"}

\* a plausible slip: no except clause, socket.error propagates
Escapes_NoExcept(outcome) == IF outcome = "connected" THEN "None" ELSE outcome

\* the exception that leaves the try statement for an outcome of the attempt:
\* except socket.error: pass
Escapes(outcome) == IF outcome \in {"connected", "socket.error"} THEN "None" ELSE outcome

\* a plausible slip: while True, retrying until the gateway answers
MoreAttempts_Forever(done, n) == TRUE

\* whether the for loop over range(n) has another pass after done passes
MoreAttempts(done, n) == done < n

\* one pass of the loop body: a connection attempt, then the sleep
ProbeAttempt ==
    /\ pc = "probe_loop"
    /\ MoreAttempts(Len(tries), nrange)
    /\ \E outcome \in ConnectOutcomes(port) :
        /\ tries' = Append(tries, outcome)
        /\ IF Escapes(outcome) # "None"
           THEN /\ ProbeRaise(Escapes(outcome))
                /\ UNCHANGED probeRet
           ELSE /\ IF outcome = "connected"
                   THEN /\ probeRet' = "True"
                        /\ pc' = "probe_returned"
                   ELSE /\ pc' = "probe_loop"
                        /\ UNCHANGED probeRet
                /\ UNCHANGED <<err, errAt>>
    /\ UNCHANGED <<entry, argVars, console, timeout, retry_delay, port, nrange, trd_ctx, calls, listing,
                   acc_list_ret, acc_ids, acc_ids_bound, idx, loopVars, envVars,
                   reports, exitStatus>>

\* the range is exhausted: return False
ProbeExhausted ==
    /\ pc = "probe_loop"
    /\ ~MoreAttempts(Len(tries), nrange)
    /\ probeRet' = "False"
    /\ pc' = "probe_returned"
    /\ UNCHANGED <<entry, argVars, console, timeout, retry_delay, port, nrange, tries, trd_ctx, calls,
                   listing, acc_list_ret, acc_ids, acc_ids_bound, idx, loopVars,
                   envVars, reports, err, errAt, exitStatus>>

(* ----------------------------- __main__ -------------------------------- *)
\* trd_ctx = None; try: get_trade_context() is entered and calls moomoo_is_running()
MainTry ==
    /\ entry = "main"
    /\ pc = "main_try"
    /\ pc' = "probe_range"
    /\ UNCHANGED <<entry, argVars, console, probeVars, trd_ctx, calls, listing, acc_list_ret, acc_ids,
                   acc_ids_bound, idx, loopVars, envVars, reports, err, errAt,
                   exitStatus>>

(* ------------------------- get_trade_context --------------------------- *)
\* a plausible slip: the result of the probe is ignored
AfterProbe_Ignored(r) == "open_ctx"

\* the position get_trade_context continues at once the probe has returned r
AfterProbe(r) == IF r = "True" THEN "open_ctx" ELSE "raise_not_running"

\* if not moomoo_is_running(): raise RuntimeError
GetTradeContextGate ==
    /\ entry = "main"
    /\ pc = "probe_returned"
    /\ IF AfterProbe(probeRet) = "open_ctx"
       THEN /\ pc' = "open_ctx"
            /\ UNCHANGED <<err, errAt>>
       ELSE /\ err' = "RuntimeError"
            /\ errAt' = 0
            /\ pc' = "main_finally"
    /\ UNCHANGED <<entry, argVars, console, probeVars, trd_ctx, calls, listing, acc_list_ret, acc_ids,
                   acc_ids_bound, idx, loopVars, envVars, reports, exitStatus>>

\* trd_ctx = ft.OpenSecTradeContext(...); return trd_ctx; the caller binds it
OpenSecTradeContext ==
    /\ pc = "open_ctx"
    /\ \E outcome \in {"ok", "raise"} :
        IF outcome = "ok"
        THEN /\ trd_ctx' = "ctx"
             /\ calls' = Append(calls, Call("OpenSecTradeContext", 0))
             /\ pc' = "get_accounts"
             /\ UNCHANGED <<err, errAt>>
        ELSE /\ err' = "SDKError"
             /\ errAt' = 0
             /\ pc' = "main_finally"
             /\ UNCHANGED <<trd_ctx, calls>>
    /\ UNCHANGED <<entry, argVars, console, probeVars, listing, acc_list_ret, acc_ids, acc_ids_bound, idx,
                   loopVars, envVars, reports, exitStatus>>

(* ----------------------------- get_accounts ---------------------------- *)
\* a plausible slip: enumeration failure raises, as get_trade_context does
GetAccountsResult_Raises(ret, data) ==
    IF ret = "RET_OK"
    THEN [raises |-> "None", value |-> RealAccIds(data)]
    ELSE [raises |-> "RuntimeError", value |-> <<>>]

\* how get_accounts ends for (ret, data): the list it returns, no exception
GetAccountsResult(ret, data) ==
    IF ret = "RET_OK"
    THEN [raises |-> "None", value |-> RealAccIds(data)]
    ELSE [raises |-> "None", value |-> <<>>]

\* if acc_id is None: acc_ids = get_accounts(trd_ctx=trd_ctx)
GetAccounts ==
    /\ pc = "get_accounts"
    /\ calls' = Append(calls, Call("get_acc_list", 0))
    /\ \/ \E ret \in {"RET_OK", "RET_ERROR"} :
          \E data \in (IF ret = "RET_OK" THEN Listings ELSE {<<>>}) :
            /\ SameListing(ret, data)
            /\ acc_list_ret' = ret
            /\ listing' = data
            /\ IF GetAccountsResult(ret, data).raises = "None"
               THEN /\ acc_ids' = GetAccountsResult(ret, data).value
                    /\ acc_ids_bound' = TRUE
                    /\ pc' = "loop_head"
                    /\ UNCHANGED <<err, errAt>>
               ELSE /\ err' = GetAccountsResult(ret, data).raises
                    /\ errAt' = 0
                    /\ pc' = "main_finally"
                    /\ UNCHANGED <<acc_ids, acc_ids_bound>>
       \/ /\ err' = "SDKError"
          /\ errAt' = 0
          /\ pc' = "main_finally"
          /\ UNCHANGED <<listing, acc_list_ret, acc_ids, acc_ids_bound>>
    /\ UNCHANGED <<entry, argVars, console, probeVars, trd_ctx, idx, loopVars, envVars, reports,
                   exitStatus>>

(* ---------------------- export_account_data_for_web -------------------- *)
\* a plausible change: the loop body is wrapped in try/except and continues
LoopRaise_Caught(e) ==
    /\ err' = "None"
    /\ errAt' = idx
    /\ pc' = "loop_head"

\* an exception raised in the body of the per-account loop: nothing catches it
\* before __main__'s finally
LoopRaise(e) ==
    /\ err' = e
    /\ errAt' = idx
    /\ pc' = "main_finally"

Report(pos, data) ==
    [pos |-> pos, posdata |-> Kept(data), acc |-> "none", accdata |-> None, total |-> Unbound,
     outcome |-> "pending", ts |-> Unbound]

\* a plausible completion of line 113: else: acc_ids = [acc_id]
AccIdsForArg_Single(arg) == [bound |-> TRUE, value |-> <<arg>>]

\* acc_ids after "if acc_id is None:" was skipped for a non-None acc_id: the
\* name is not assigned
AccIdsForArg(arg) == [bound |-> FALSE, value |-> <<>>]

\* export_account_data_for_web(trd_ctx, acc_id) is called with a non-None acc_id:
\* if acc_id is None: (not taken)
ExportCall ==
    /\ entry = "export"
    /\ pc = "export_call"
    /\ arg_acc_id # ArgNone
    /\ acc_ids' = AccIdsForArg(arg_acc_id).value
    /\ acc_ids_bound' = AccIdsForArg(arg_acc_id).bound
    /\ pc' = "loop_head"
    /\ UNCHANGED <<entry, argVars, console, probeVars, trd_ctx, calls, listing,
                   acc_list_ret, idx, loopVars, envVars, reports, err, errAt,
                   exitStatus>>

\* for acc_id in acc_ids: positions_data = None; account_data = None
LoopHead ==
    /\ pc = "loop_head"
    /\ IF ~acc_ids_bound
       THEN /\ err' = "UnboundLocalError"
            /\ errAt' = 0
            /\ pc' = IF entry = "main" THEN "main_finally" ELSE "export_raised"
            /\ UNCHANGED <<idx, positions_data, account_data>>
       ELSE /\ IF idx < Len(acc_ids)
               THEN /\ idx' = idx + 1
                    /\ positions_data' = None
                    /\ account_data' = None
                    /\ pc' = "position_list_query"
               ELSE /\ pc' = IF entry = "main" THEN "main_finally"
                                               ELSE "export_returned"
                    /\ UNCHANGED <<idx, positions_data, account_data>>
            /\ UNCHANGED <<err, errAt>>
    /\ UNCHANGED <<entry, argVars, console, probeVars, trd_ctx, calls, listing,
                   acc_list_ret, acc_ids, acc_ids_bound, total_assets_value, timestamp,
                   envVars, reports, exitStatus>>

\* ret, positions_data = trd_ctx.position_list_query(acc_id=acc_id, refresh_cache=True)
PositionListQuery ==
    /\ pc = "position_list_query"
    /\ calls' = Append(calls, Call("position_list_query", idx))
    /\ \/ \E n \in 0..MaxPositions :
            /\ SamePositions(idx, "RET_OK", DataFrame(n, 0))
            /\ positions_data' = DataFrame(n, 0)
            /\ reports' = Append(reports, Report("RET_OK", DataFrame(n, 0)))
            /\ pc' = "accinfo_query"
            /\ UNCHANGED <<err, errAt>>
       \/ \E data \in ErrorPayloads :
            /\ SamePositions(idx, "RET_ERROR", data)
            /\ positions_data' = data
            /\ reports' = Append(reports, Report("RET_ERROR", data))
            /\ pc' = "accinfo_query"
            /\ UNCHANGED <<err, errAt>>
       \/ /\ LoopRaise("SDKError")
          /\ UNCHANGED <<positions_data, reports>>
    /\ UNCHANGED <<entry, argVars, console, probeVars, trd_ctx, listing, acc_list_ret, acc_ids,
                   acc_ids_bound, idx, account_data, total_assets_value, timestamp,
                   envVars, exitStatus>>

\* total_assets_value after the summary query returned (ret, data):
\* if ret == RET_OK and account_data.shape[0] > 0: total_assets_value = ...values[0]
TotalAssetsAfter(ret, data, old) ==
    IF ret = "RET_OK" /\ data.rows > 0 THEN data.total_assets ELSE old

\* ret, account_data = trd_ctx.accinfo_query(acc_id=acc_id, currency=..., refresh_cache=True)
AccinfoQuery ==
    /\ pc = "accinfo_query"
    /\ calls' = Append(calls, Call("accinfo_query", idx))
    /\ \/ \E ret \in {"RET_OK", "RET_ERROR"} :
          \E data \in (IF ret = "RET_OK"
                       THEN {DataFrame(1, v) : v \in AssetValues} \cup {DataFrame(0, 0)}
                       ELSE ErrorPayloads) :
            /\ SameSummary(idx, ret, data)
            /\ account_data' = data
            /\ total_assets_value' = TotalAssetsAfter(ret, data, total_assets_value)
            /\ reports' = [reports EXCEPT ![idx].acc = ret,
                                          ![idx].accdata = Kept(data),
                                          ![idx].total = IF ret = "RET_OK" /\ data.rows > 0
                                                         THEN data.total_assets
                                                         ELSE Unbound]
            /\ pc' = "activity_filter"
            /\ UNCHANGED <<err, errAt>>
       \/ /\ LoopRaise("SDKError")
          /\ UNCHANGED <<account_data, total_assets_value, reports>>
    /\ UNCHANGED <<entry, argVars, console, probeVars, trd_ctx, listing, acc_list_ret, acc_ids,
                   acc_ids_bound, idx, positions_data, timestamp, envVars, exitStatus>>

\* a plausible slip: < in place of <=
IsInactive_Strict(v) == v < ActivityThreshold

\* total_assets_value <= 0.1
IsInactive(v) == v <= ActivityThreshold

\* print(f"  [red bold]-> Skip inactive account '{acc_id}'[/red bold]")
SkipNotice(id) == [kind |-> "skip", text |-> id]

\* if total_assets_value <= 0.1: print(skip); continue
ActivityFilter ==
    /\ pc = "activity_filter"
    /\ IF total_assets_value = Unbound
       THEN /\ LoopRaise("UnboundLocalError")
            /\ UNCHANGED <<reports, console>>
       ELSE /\ IF IsInactive(total_assets_value)
               THEN /\ reports' = [reports EXCEPT ![idx].outcome = "skipped"]
                    /\ console' = Append(console, SkipNotice(acc_ids[idx]))
                    /\ pc' = "loop_head"
               ELSE /\ pc' = "to_dict"
                    /\ UNCHANGED <<reports, console>>
            /\ UNCHANGED <<err, errAt>>
    /\ UNCHANGED <<entry, argVars, probeVars, trd_ctx, calls, listing, acc_list_ret, acc_ids,
                   acc_ids_bound, idx, loopVars, envVars, exitStatus>>

\* the exception lines 148-149 raise for these two values, "None" if they do not:
\* positions_data.to_dict(orient="records"); account_data.to_dict(orient="records")[0]
ToDictError(pos, acc) ==
    IF pos.kind # "DataFrame" THEN "AttributeError"
    ELSE IF acc.kind # "DataFrame" THEN "AttributeError"
    ELSE IF acc.rows = 0 THEN "IndexError"
    ELSE "None"

\* lines 148-151: both conversions, then timestamp = datetime.now().strftime(...)
ToDict ==
    /\ pc = "to_dict"
    /\ IF ToDictError(positions_data, account_data) # "None"
       THEN /\ LoopRaise(ToDictError(positions_data, account_data))
            /\ UNCHANGED <<positions_data, account_data, timestamp, clock>>
       ELSE /\ positions_data' = [positions_data EXCEPT !.kind = "list"]
            /\ account_data' = [account_data EXCEPT !.kind = "dict"]
            /\ \E now \in clock..MaxClock :
                /\ clock' = now
                /\ timestamp' = now
            /\ pc' = "open_file"
            /\ UNCHANGED <<err, errAt>>
    /\ UNCHANGED <<entry, argVars, console, probeVars, trd_ctx, calls, listing, acc_list_ret, acc_ids,
                   acc_ids_bound, idx, total_assets_value, files, reports, exitStatus>>

EmptyFile == [stage |-> "empty", timestamp |-> Unbound, total_assets |-> Unbound,
              positions |-> 0]
\* json.dump(dict(timestamp=timestamp, account=account_data, positions=positions_data))
Snapshot(stage, ts, acc, pos) ==
    [stage |-> stage, timestamp |-> ts, total_assets |-> acc.total_assets,
     positions |-> pos.rows]

\* the name of the file the snapshot of account id taken at ts goes to
out_path(id, ts) == OutPath(id, ts)

\* short_acc_id = ...; out_path = ...; with open(out_path, "w") as f:
OpenFile ==
    /\ pc = "open_file"
    /\ \E outcome \in {"ok", "OSError"} :
        IF outcome = "ok"
        THEN /\ files' = (out_path(acc_ids[idx], timestamp) :> EmptyFile) @@ files
             /\ reports' = [reports EXCEPT ![idx].outcome = "opened",
                                           ![idx].ts = timestamp]
             /\ pc' = "json_dump"
             /\ UNCHANGED <<err, errAt>>
        ELSE /\ LoopRaise("OSError")
             /\ UNCHANGED <<files, reports>>
    /\ UNCHANGED <<entry, argVars, console, probeVars, trd_ctx, calls, listing, acc_list_ret, acc_ids,
                   acc_ids_bound, idx, loopVars, clock, exitStatus>>

\* json.dump(data, f, indent=4), the file is closed, print(success)
JsonDump ==
    /\ pc = "json_dump"
    /\ \E outcome \in {"ok", "OSError"} :
        IF outcome = "ok"
        THEN /\ files' = (out_path(acc_ids[idx], timestamp) :>
                            Snapshot("complete", timestamp, account_data, positions_data))
                         @@ files
             /\ reports' = [reports EXCEPT ![idx].outcome = "written"]
             /\ pc' = "loop_head"
             /\ UNCHANGED <<err, errAt>>
        ELSE /\ files' = (out_path(acc_ids[idx], timestamp) :>
                            Snapshot("partial", timestamp, account_data, positions_data))
                         @@ files
             /\ LoopRaise("OSError")
             /\ UNCHANGED reports
    /\ UNCHANGED <<entry, argVars, console, probeVars, trd_ctx, calls, listing, acc_list_ret, acc_ids,
                   acc_ids_bound, idx, loopVars, clock, exitStatus>>

(* ------------------------ __main__: except/finally --------------------- *)
\* a plausible slip: close() on the success path only, not in a finally
FinallyCalls_SuccessOnly(ctx, cs) ==
    IF ctx # "None" /\ err = "None" THEN Append(cs, Call("close", 0)) ELSE cs

\* finally: if trd_ctx is not None: trd_ctx.close()
FinallyCalls(ctx, cs) == IF ctx # "None" THEN Append(cs, Call("close", 0)) ELSE cs

\* except Exception as e: raise e; finally: ...; the process exits
MainFinally ==
    /\ entry = "main"
    /\ pc = "main_finally"
    /\ calls' = FinallyCalls(trd_ctx, calls)
    /\ exitStatus' = IF err = "None" THEN "ok" ELSE "error"
    /\ pc' = "exit"
    /\ UNCHANGED <<entry, argVars, console, probeVars, trd_ctx, listing, acc_list_ret, acc_ids,
                   acc_ids_bound, idx, loopVars, envVars, reports, err, errAt>>

\* python moomoo_export.py is run again, after a run that exited normally: a
\* new process, the same output directory, a clock that did not go back
RunAgain ==
    /\ entry = "main"
    /\ pc = "exit"
    /\ exitStatus = "ok"
    /\ run < runs
    /\ run' = run + 1
    /\ prev' = [listing |-> listing, acc_list_ret |-> acc_list_ret,
                reports |-> reports, files |-> files]
    /\ pc' = "main_try"
    /\ console' = <<>>
    /\ nrange' = 0
    /\ tries' = <<>>
    /\ probeRet' = "none"
    /\ trd_ctx' = "None"
    /\ calls' = <<>>
    /\ listing' = <<>>
    /\ acc_list_ret' = "none"
    /\ acc_ids' = <<>>
    /\ acc_ids_bound' = FALSE
    /\ idx' = 0
    /\ positions_data' = None
    /\ account_data' = None
    /\ total_assets_value' = Unbound
    /\ timestamp' = Unbound
    /\ reports' = <<>>
    /\ exitStatus' = "running"
    /\ UNCHANGED <<entry, arg_acc_id, runs, timeout, retry_delay, port, envVars, err, errAt>>

Next ==
    \/ MainTry
    \/ ProbeRange
    \/ ProbeAttempt
    \/ ProbeExhausted
    \/ GetTradeContextGate
    \/ OpenSecTradeContext
    \/ GetAccounts
    \/ ExportCall
    \/ LoopHead
    \/ PositionListQuery
    \/ AccinfoQuery
    \/ ActivityFilter
    \/ ToDict
    \/ OpenFile
    \/ JsonDump
    \/ MainFinally

\* one run of the script, or one call of a function
Spec == Init /\ [][Next]_vars

\* the script run and, after a normal exit, run once more on the same data
NextTwice ==
    \/ Next
    \/ RunAgain

InitTwice == InitFor(Runs)

SpecTwice == InitTwice /\ [][NextTwice]_vars

\* the interpreter goes on to its next statement as long as there is one, and
\* every connection attempt and remote call returns or raises
FairSpec == Init /\ [][Next]_vars /\ WF_vars(Next)

(* ======================================================================= *)
(* Properties                                                              *)
(* ======================================================================= *)
CountOf(op) == Cardinality({i \in DOMAIN calls : calls[i].op = op})
Closes == CountOf("close")
\* the loop is past account i: it was written, skipped or the run has ended
Finished(i) == idx > i \/ pc \in {"loop_head", "main_finally", "exit"}
AllFailed == \A i \in DOMAIN tries : tries[i] = "socket.error"
IsActive(i) == reports[i].total # Unbound /\ reports[i].total > ActivityThreshold

\* C1: whenever get_trade_context returned a session, close() is called exactly
\* once before the process exits, on every exit path (normal, empty enumeration,
\* skipped account, error in enumeration, fetch, filter or write): never zero
\* times at exit, never twice, and not before the finally clause.
C1_ClosedExactlyOnce ==
    /\ Closes <= 1
    /\ (trd_ctx = "ctx" /\ pc = "exit") => Closes = 1
    /\ (trd_ctx = "ctx" /\ pc # "exit") => Closes = 0
    /\ trd_ctx = "None" => Closes = 0

\* C1 witness: the process has exited on an error raised while writing, after an
\* earlier account was skipped, with the session closed once.
C1_Witness ==
    /\ pc = "exit" /\ trd_ctx = "ctx" /\ Closes = 1
    /\ err = "OSError" /\ errAt = 2
    /\ reports[1].outcome = "skipped"

\* C2 (as claimed): a failure inside the per-account loop is caught, the run is
\* not aborted, and every later account is still fetched.
C2_Original ==
    (pc = "exit" /\ errAt > 0) =>
        /\ exitStatus = "ok"
        /\ \A j \in (errAt + 1)..Len(acc_ids) :
            \E k \in DOMAIN calls : calls[k] = Call("position_list_query", j)

\* C2 (amended): an exception raised while processing account errAt is not caught
\* in export_account_data_for_web: the loop ends there, no query is issued for a
\* later account and none of them is written or skipped, and the entry point
\* closes the session and exits with the error.
C2_LoopFailureAborts ==
    errAt > 0 =>
        /\ err # "None"
        /\ idx = errAt
        /\ pc \in {"main_finally", "exit"}
        /\ \A k \in DOMAIN calls : calls[k].i <= errAt
        /\ Len(reports) <= errAt
        /\ pc = "exit" => (exitStatus = "error" /\ Closes = 1)

\* C2 witness: the run has ended on a failure at the first of two accounts.
C2_Witness ==
    /\ pc = "exit" /\ errAt = 1 /\ Len(acc_ids) = 2
    /\ CountOf("position_list_query") = 1

\* C3: if every connection attempt of the probe fails for the whole budget,
\* get_trade_context raises before a session is constructed: no session, no
\* account listing or query, no file, no close(), and the run ends in error.
C3_UnreachableGatewayAborts ==
    (entry = "main" /\ probeRet = "False" /\ pc # "probe_returned") =>
        /\ pc \in {"main_finally", "exit"}
        /\ err = "RuntimeError"
        /\ trd_ctx = "None"
        /\ calls = <<>>
        /\ DOMAIN files = {}
        /\ pc = "exit" => exitStatus = "error"

\* C3 witness: the script has exited after six failed attempts.
C3_Witness ==
    /\ entry = "main" /\ pc = "exit" /\ probeRet = "False"
    /\ Len(tries) = 6 /\ AllFailed

\* C4: every snapshot file written holds a summary with total_assets > 0.1, and
\* no file is produced for an account whose summary reports total_assets <= 0.1,
\* whatever was processed before it.
C4_OnlyActiveWritten ==
    /\ \A f \in DOMAIN files :
        files[f].stage # "empty" => files[f].total_assets > ActivityThreshold
    /\ \A i \in DOMAIN reports :
        (reports[i].total # Unbound /\ reports[i].total <= ActivityThreshold) =>
            /\ reports[i].outcome \in {"pending", "skipped"}
            /\ (Finished(i) /\ errAt # i) => reports[i].outcome = "skipped"
    /\ \A i \in DOMAIN reports :
        reports[i].outcome \in {"opened", "written"} => IsActive(i)

\* C4 witness: after an account with total_assets above the threshold was
\* written, an account reporting exactly 0.1 has been skipped.
C4_Witness ==
    /\ Len(reports) = 2
    /\ reports[1].outcome = "written"
    /\ reports[2].total = ActivityThreshold
    /\ reports[2].outcome = "skipped"

\* C5 (as claimed): after a run in which nothing raised, every account whose
\* summary reported total_assets > 0.1 has its own snapshot file: the files
\* present number as many as the active accounts, ids ending in the same 4
\* characters and written in the same second included.
C5_Original ==
    (pc = "exit" /\ err = "None") =>
        /\ \A i \in DOMAIN reports :
            IsActive(i) =>
                /\ reports[i].outcome = "written"
                /\ OutPath(acc_ids[i], reports[i].ts) \in DOMAIN files
        /\ Cardinality(DOMAIN files) = Cardinality({i \in DOMAIN reports : IsActive(i)})

\* C6 (as claimed): an account whose positions query returned a non-success
\* status while its summary query succeeded with total_assets > 0.1 is still
\* written, with an empty positions list (no I/O failure assumed).
C6_Original ==
    \A i \in DOMAIN reports :
        (/\ Finished(i)
         /\ reports[i].pos = "RET_ERROR"
         /\ reports[i].acc = "RET_OK"
         /\ IsActive(i)
         /\ err # "OSError") =>
            /\ reports[i].outcome = "written"
            /\ errAt # i

\* C7 (as claimed): a summary query that returns a non-success status is not
\* fatal: no error escapes because of it, for the first account or a later one.
C7_Original ==
    \A i \in DOMAIN reports :
        (pc = "exit" /\ reports[i].acc = "RET_ERROR" /\ reports[i].pos = "RET_OK") =>
            /\ errAt # i
            /\ (err = "None" => Len(reports) = Len(acc_ids))

\* C8: if get_acc_list returns a non-success status, get_accounts returns an
\* empty list, no per-account query is issued, no file is written, the session
\* is closed and the run completes without an error.
C8_EnumerationDegraded ==
    acc_list_ret = "RET_ERROR" =>
        /\ acc_ids_bound /\ acc_ids = <<>>
        /\ pc \in {"loop_head", "main_finally", "exit"}
        /\ CountOf("position_list_query") = 0 /\ CountOf("accinfo_query") = 0
        /\ DOMAIN files = {}
        /\ err = "None"
        /\ pc = "exit" => (exitStatus = "ok" /\ Closes = 1)

\* C8 witness: the run has exited after a degraded enumeration.
C8_Witness == pc = "exit" /\ acc_list_ret = "RET_ERROR" /\ exitStatus = "ok"

\* C9: for retry_delay > 0, moomoo_is_running makes at most
\* floor(timeout / retry_delay) attempts, returns True at the first attempt that
\* succeeds and makes none after it, and returns False exactly when all
\* floor(timeout / retry_delay) attempts failed.
C9_ProbeAttempts ==
    retry_delay > 0 =>
        /\ Len(tries) <= timeout \div retry_delay
        /\ probeRet = "True" =>
            /\ Len(tries) >= 1
            /\ tries[Len(tries)] = "connected"
            /\ \A i \in 1..(Len(tries) - 1) : tries[i] = "socket.error"
        /\ probeRet # "none" =>
            (probeRet = "False" <=>
                (Len(tries) = timeout \div retry_delay /\ AllFailed))
        /\ (pc = "probe_loop" /\ Len(tries) < timeout \div retry_delay) =>
            AllFailed

\* C9 witness: timeout 3 s, retry_delay 0.5 s, six failed attempts, False.
C9_Witness ==
    /\ timeout = 30 /\ retry_delay = 5
    /\ Len(tries) = 6 /\ AllFailed /\ probeRet = "False"

C11_Original ==
    /\ Len(console) = Cardinality({i \in DOMAIN reports : reports[i].outcome = "skipped"})
    /\ \A n \in DOMAIN console :
        console[n].kind = "skip" =>
            \E i \in DOMAIN reports :
                /\ reports[i].outcome = "skipped"
                /\ console[n].text = ShortAccId(acc_ids[i])
                /\ console[n].text # acc_ids[i]

\* the positions of the REAL records of the listing, and the k-th of them
RealRows == {i \in DOMAIN listing : listing[i].trd_env = "REAL"}
KthRealRow(k) == CHOOSE i \in RealRows : Cardinality({j \in RealRows : j <= i}) = k

\* C12: when get_acc_list succeeds, get_accounts returns the acc_id of each
\* listed record whose trd_env is "REAL", once per record and in the order of
\* the listing, and nothing from a record with another trd_env.
C12_RealAccountsInOrder ==
    (acc_list_ret = "RET_OK" /\ acc_ids_bound) =>
        /\ Len(acc_ids) = Cardinality(RealRows)
        /\ \A k \in DOMAIN acc_ids : acc_ids[k] = listing[KthRealRow(k)].acc_id

\* C12 witness: a listing whose first record is not REAL and whose second is.
C12_Witness ==
    /\ acc_list_ret = "RET_OK" /\ acc_ids_bound
    /\ Len(listing) = 2
    /\ listing[1].trd_env = "SIMULATE" /\ listing[2].trd_env = "REAL"
    /\ acc_ids = <<listing[2].acc_id>>

\* a remote call of the open session raised: it was issued and handed back no
\* (ret, data)
RemoteRaised ==
    \E k \in DOMAIN calls :
        \/ calls[k].op = "get_acc_list" /\ acc_list_ret = "none"
        \/ calls[k].op = "position_list_query" /\ Len(reports) < calls[k].i
        \/ calls[k].op = "accinfo_query" /\ reports[calls[k].i].acc = "none"
PerAccountQueries(cs) == SelectSeq(cs, LAMBDA c : c.i > 0)

\* C14: when get_acc_list, position_list_query or accinfo_query raises, the
\* failure is fatal for the run: from then on no query is issued and no account
\* is written or skipped, the only step left is the entry point's finally, which
\* closes the session, and the process exits with the error.
C14_TransportFailureFatal ==
    /\ [](RemoteRaised => (err = "SDKError" /\ pc \in {"main_finally", "exit"}))
    /\ [](RemoteRaised /\ pc = "exit" => exitStatus = "error" /\ Closes = 1)
    /\ [][RemoteRaised =>
            /\ pc = "main_finally" /\ pc' = "exit"
            /\ calls' = Append(calls, Call("close", 0))
            /\ files' = files /\ reports' = reports /\ console' = console
            /\ err' = err /\ exitStatus' = "error"]_vars

\* C14 witness: the summary query of the first of two accounts raised and the
\* run has exited.
C14_Witness ==
    /\ pc = "exit" /\ RemoteRaised /\ errAt = 1 /\ Len(acc_ids) = 2
    /\ calls[Len(calls) - 1] = Call("accinfo_query", 1)
    /\ Closes = 1 /\ exitStatus = "error"

\* C15 (as claimed): the write-or-skip decision rests on the account's own summary
\* only: the value compared against 0.1 was assigned in this iteration, and an
\* account whose summary degraded (non-success or no rows) is skipped.
C15_Original ==
    /\ (pc = "activity_filter" /\ total_assets_value # Unbound) =>
            reports[idx].total = total_assets_value
    /\ \A i \in DOMAIN reports :
        (Finished(i) /\ reports[i].acc # "none" /\ reports[i].total = Unbound) =>
            (reports[i].outcome = "skipped" /\ errAt # i)

\* C16: the order is probe, session open, enumeration, per-account work, close:
\* the session is constructed only after the probe returned True, every query is
\* issued after the construction and before close(), and close() is issued by
\* the entry point's finally only, as the last operation.
C16_SessionOrder ==
    entry = "main" =>
        /\ \A k \in DOMAIN calls :
            /\ calls[k].op = "OpenSecTradeContext" <=> k = 1
            /\ calls[k].op = "close" => (k = Len(calls) /\ pc = "exit")
            /\ IsQuery(calls[k]) => (trd_ctx = "ctx" /\ \A j \in 1..k : calls[j].op # "close")
        /\ calls # <<>> => probeRet = "True"
        /\ trd_ctx = "ctx" <=> calls # <<>>
        /\ pc \in {"get_accounts", "loop_head", "position_list_query", "accinfo_query",
                   "activity_filter", "to_dict", "open_file", "json_dump"} =>
              (trd_ctx = "ctx" /\ Closes = 0)

\* C16 witness: a run that opened the session, enumerated, queried one account
\* and closed.
C16_Witness ==
    /\ entry = "main" /\ pc = "exit" /\ Len(calls) = 5
    /\ calls[2].op = "get_acc_list" /\ calls[5].op = "close"

\* C17: accounts are processed one at a time in the order of acc_ids: the
\* per-account queries are positions(1), summary(1), positions(2), summary(2),
\* ..., each once; the decision on an account comes after both of its queries;
\* the first query of account k+1 comes after account k was written or skipped.
C17_SequentialNoRetry ==
    LET q == PerAccountQueries(calls) IN
    /\ \A m \in DOMAIN q :
        q[m] = Call(IF m % 2 = 1 THEN "position_list_query" ELSE "accinfo_query",
                    (m + 1) \div 2)
    /\ Len(q) <= 2 * idx /\ idx <= Len(acc_ids)
    /\ \A i \in 1..idx :
        /\ (i \in DOMAIN reports /\ reports[i].outcome # "pending") => Len(q) >= 2 * i
        /\ Len(q) > 2 * i =>
              (i \in DOMAIN reports /\ reports[i].outcome \in {"written", "skipped"})

\* C17 witness: the second account was queried and skipped after the first was
\* written.
C17_Witness ==
    /\ Len(PerAccountQueries(calls)) = 4
    /\ reports[1].outcome = "written" /\ reports[2].outcome = "skipped"

\* C18 (as claimed): every snapshot file that exists holds one complete snapshot;
\* an empty or truncated file is never observable.
C18_Original == \A f \in DOMAIN files : files[f].stage = "complete"

\* C20: a call of export_account_data_for_web with a non-None acc_id never
\* exports that account: acc_ids is bound only when acc_id is None, so the call
\* fails with UnboundLocalError at the for statement, before any remote query
\* and any file.
C20_NonNoneAccIdFails ==
    (entry = "export" /\ arg_acc_id # ArgNone) =>
        /\ pc \in {"export_call", "loop_head", "export_raised"}
        /\ ~acc_ids_bound
        /\ calls = <<>> /\ reports = <<>> /\ DOMAIN files = {} /\ idx = 0
        /\ pc = "export_raised" <=> err = "UnboundLocalError"

\* C20 witness: the call with acc_id 51111 has raised.
C20_Witness ==
    /\ entry = "export" /\ arg_acc_id = <<5, 1, 1, 1, 1>>
    /\ pc = "export_raised" /\ err = "UnboundLocalError"

\* the file names account i was written to in the previous run and in this one
FirstName(i) == OutPath(acc_ids[i], prev.reports[i].ts)
SecondName(i) == OutPath(acc_ids[i], reports[i].ts)
WrittenTwice == {i \in DOMAIN reports : reports[i].outcome = "written"}

\* C13 (as claimed): after a second run on identical upstream data, for every
\* account written: if both writes fell in the same second, the second write
\* replaced the first one's file and added none (the set of files is unchanged
\* when this holds of every account); if they fell in different seconds, the
\* second run added a file that was not there, under a different name, and the
\* first run's file is still in place with its content.
C13_Original ==
    (run = 2 /\ pc = "exit" /\ exitStatus = "ok") =>
        /\ \A i \in WrittenTwice :
            IF reports[i].ts = prev.reports[i].ts
            THEN /\ SecondName(i) = FirstName(i)
                 /\ SecondName(i) \in DOMAIN prev.files
            ELSE /\ SecondName(i) # FirstName(i)
                 /\ SecondName(i) \notin DOMAIN prev.files
                 /\ FirstName(i) \in DOMAIN files
                 /\ files[FirstName(i)] = prev.files[FirstName(i)]
        /\ (\A i \in WrittenTwice : reports[i].ts = prev.reports[i].ts) =>
              DOMAIN files = DOMAIN prev.files

\* the script has exited, or the function that was called has returned or raised
Ended ==
    \/ pc \in {"exit", "raised", "export_raised", "export_returned"}
    \/ entry = "probe" /\ pc = "probe_returned"
\* the success path: every enumerated account written or skipped, session closed
Done ==
    /\ exitStatus = "ok"
    /\ err = "None"
    /\ trd_ctx # "None"
    /\ Closes = 1
    /\ Len(reports) = Len(acc_ids)
    /\ \A i \in DOMAIN reports : reports[i].outcome \in {"written", "skipped"}
\* the run failed before it had a session: no account processed
Aborted ==
    /\ exitStatus = "error"
    /\ err # "None"
    /\ trd_ctx = "None"
    /\ Closes = 0
    /\ reports = <<>>
    /\ DOMAIN files = {}
\* the run failed with the session open, in get_accounts or at account errAt
FailedInSession ==
    /\ exitStatus = "error"
    /\ err # "None"
    /\ trd_ctx # "None"
    /\ Closes = 1
    /\ \A i \in DOMAIN reports :
          i # errAt => reports[i].outcome \in {"written", "skipped"}

====
